---- MODULE Spec2Model ----
(***************************************************************************)
(* Model of the CryovacTIC500 Tango device server                          *)
(* (src/src/cryovacTIC500/cryovacTIC500.py).                               *)
(*                                                                         *)
(* The device owns one TCP socket (self.conn).  Attribute reads go through *)
(* query (send, then recv), attribute writes through send_command (send    *)
(* only).  The instrument at the other end of the socket is the            *)
(* environment: it handles the command lines in the order they were sent   *)
(* and answers each with a reply line or with nothing.                     *)
(*                                                                         *)
(* Texts are TLA+ strings; Python's float values are counted in units of   *)
(* 10^-FracDigits.                                                         *)
(***************************************************************************)
EXTENDS Integers, Sequences, FiniteSets, TLC

VARIABLES
    state,        \* Tango device state: "UNKNOWN", "ON" or "FAULT"
    status,       \* Tango status text
    conn,         \* self.conn: "absent", "unconnected", "connected", "closed"
    outstanding,  \* requests written to the socket the instrument has not handled yet
    rxbuf,        \* reply lines waiting in the socket's receive buffer
    nextReq,      \* number of the next request written to the current socket
    last          \* what the most recent call did (observation of the handler's run)

vars == <<state, status, conn, outstanding, rxbuf, nextReq, last>>

(***************************************************************************)
(* Bounds                                                                  *)
(***************************************************************************)
MaxCalls == 2       \* requests written to one socket before it is re-opened

(***************************************************************************)
(* Python text operations                                                  *)
(***************************************************************************)
Char(s, i) == SubSeq(s, i, i)

Whitespace == {" ", "\t", "\n", "\r"}

Digit == {"0", "1", "2", "3", "4", "5", "6", "7", "8", "9"}

\* str.startswith
startswith(s, p) == Len(s) >= Len(p) /\ SubSeq(s, 1, Len(p)) = p

endswith(s, p) == Len(s) >= Len(p) /\ SubSeq(s, Len(s) - Len(p) + 1, Len(s)) = p

RECURSIVE lstrip(_)
lstrip(s) ==
    IF Len(s) > 0 /\ Char(s, 1) \in Whitespace
    THEN lstrip(SubSeq(s, 2, Len(s)))
    ELSE s

RECURSIVE rstrip(_)
rstrip(s) ==
    IF Len(s) > 0 /\ Char(s, Len(s)) \in Whitespace
    THEN rstrip(SubSeq(s, 1, Len(s) - 1))
    ELSE s

\* str.strip
strip(s) == rstrip(lstrip(s))

UpperLetters == "ABCDEFGHIJKLMNOPQRSTUVWXYZ"

LowerLetters == "abcdefghijklmnopqrstuvwxyz"

LowerChar(c) ==
    IF \E i \in 1..Len(UpperLetters) : Char(UpperLetters, i) = c
    THEN Char(LowerLetters, CHOOSE i \in 1..Len(UpperLetters) : Char(UpperLetters, i) = c)
    ELSE c

\* str.lower
RECURSIVE lower(_)
lower(s) ==
    IF Len(s) = 0 THEN s
    ELSE LowerChar(Char(s, 1)) \o lower(SubSeq(s, 2, Len(s)))

(***************************************************************************)
(* Python float: parsing (float(ans)) and formatting (f"{value:.5f}",      *)
(* f"{value}").  A float is an integer number of 10^-FracDigits.           *)
(***************************************************************************)
FracDigits == 5

RECURSIVE Pow10(_)
Pow10(n) == IF n = 0 THEN 1 ELSE 10 * Pow10(n - 1)

Scale == Pow10(FracDigits)

DigitVal(c) ==
    CASE c = "0" -> 0 [] c = "1" -> 1 [] c = "2" -> 2 [] c = "3" -> 3
      [] c = "4" -> 4 [] c = "5" -> 5 [] c = "6" -> 6 [] c = "7" -> 7
      [] c = "8" -> 8 [] c = "9" -> 9

IsDigits(s) == \A i \in 1..Len(s) : Char(s, i) \in Digit

RECURSIVE DigitsVal(_)
DigitsVal(s) ==
    IF Len(s) = 0 THEN 0
    ELSE 10 * DigitsVal(SubSeq(s, 1, Len(s) - 1)) + DigitVal(Char(s, Len(s)))

RECURSIVE ZeroPadRight(_, _)
ZeroPadRight(s, n) == IF Len(s) >= n THEN SubSeq(s, 1, n) ELSE ZeroPadRight(s \o "0", n)

RECURSIVE ZeroPadLeft(_, _)
ZeroPadLeft(s, n) == IF Len(s) >= n THEN s ELSE ZeroPadLeft("0" \o s, n)

\* float(text): decimal literals [sign] digits [. digits]; anything else raises ValueError
float(text) ==
    LET s    == strip(text)
        neg  == Len(s) > 0 /\ Char(s, 1) = "-"
        sgn  == Len(s) > 0 /\ Char(s, 1) \in {"-", "+"}
        body == IF sgn THEN SubSeq(s, 2, Len(s)) ELSE s
        dots == {i \in 1..Len(body) : Char(body, i) = "."}
        dot  == IF dots = {} THEN Len(body) + 1 ELSE CHOOSE i \in dots : TRUE
        ip   == SubSeq(body, 1, dot - 1)
        fp   == SubSeq(body, dot + 1, Len(body))
        ok   == /\ Cardinality(dots) <= 1
                /\ IsDigits(ip) /\ IsDigits(fp)
                /\ Len(ip) + Len(fp) >= 1
        mag  == DigitsVal(ip) * Scale + DigitsVal(ZeroPadRight(fp, FracDigits))
    IN  IF ok THEN [ok |-> TRUE, n |-> IF neg THEN 0 - mag ELSE mag]
        ELSE [ok |-> FALSE, n |-> 0]

\* f"{value:.5f}"
Format5f(v) ==
    LET mag == IF v < 0 THEN 0 - v ELSE v
    IN  (IF v < 0 THEN "-" ELSE "")
        \o ToString(mag \div Scale) \o "."
        \o ZeroPadLeft(ToString(mag % Scale), FracDigits)

RECURSIVE DropTrailingZeros(_)
DropTrailingZeros(s) ==
    IF Len(s) > 1 /\ Char(s, Len(s)) = "0"
    THEN DropTrailingZeros(SubSeq(s, 1, Len(s) - 1))
    ELSE s

\* f"{value}" of a float: shortest form, at least one fraction digit
FormatFloat(v) ==
    LET mag == IF v < 0 THEN 0 - v ELSE v
    IN  (IF v < 0 THEN "-" ELSE "")
        \o ToString(mag \div Scale) \o "."
        \o DropTrailingZeros(ZeroPadLeft(ToString(mag % Scale), FracDigits))

(***************************************************************************)
(* Values passed to and returned from the attribute methods                *)
(***************************************************************************)
FloatVal(n) == [t |-> "float", n |-> n, s |-> "", b |-> FALSE]

StrVal(s) == [t |-> "str", n |-> 0, s |-> s, b |-> FALSE]

BoolVal(b) == [t |-> "bool", n |-> 0, s |-> "", b |-> b]

EnumVal(n) == [t |-> "SensorType", n |-> n, s |-> "", b |-> FALSE]

None == [t |-> "None", n |-> 0, s |-> "", b |-> FALSE]

OUT1 == "Out1"

OUT2 == "Out2"

IN1 == "In1"

IN2 == "In2"

\* class SensorType(IntEnum): member names by ordinal
SensorType == [n \in 0..3 |->
    CASE n = 0 -> "RTD" [] n = 1 -> "Thermistor" [] n = 2 -> "Diode" [] n = 3 -> "ROX"]

(***************************************************************************)
(* class CryovacTIC500Base: each getter is the command it hands to query   *)
(* and what it makes of the answer (ret); each setter is the command it    *)
(* hands to send_command.                                                  *)
(***************************************************************************)
get_channel_value(channel) == [cmd |-> channel \o ".value?", ret |-> "float"]

set_channel_value(channel, value) == channel \o ".value=" \o Format5f(value.n)

get_PID_input(channel) == [cmd |-> channel \o ".PID.Input", ret |-> "str"]

set_PID_input(channel, value) == "Out" \o channel \o ".PID.Input=(" \o value.s \o ")"

get_PID_setpoint(channel) == [cmd |-> channel \o ".PID.Input", ret |-> "float"]

set_PID_setpoint(channel, value) ==
    "Out" \o channel \o ".PID.Input=(" \o FormatFloat(value.n) \o ")"

get_PID_ramp_setpoint(channel) == [cmd |-> channel \o ".PID.RampT", ret |-> "float"]

\* no return statement: the method returns None whatever the answer is
get_PID_ramp_rate(channel) == [cmd |-> channel \o ".PID.Ramp", ret |-> "None"]

set_PID_ramp_rate(channel, value) == channel \o ".PID.Ramp=" \o FormatFloat(value.n)

get_PID_on(channel) == [cmd |-> channel \o ".PID.mode", ret |-> "lower_is_on"]

set_PID_on(channel, value) ==
    LET mode == IF value.b THEN "on" ELSE "off"
    IN  channel \o ".PID.mode=" \o mode

get_PID_parameter(channel, parameter) ==
    [cmd |-> channel \o ".PID." \o parameter \o "?", ret |-> "float"]

set_PID_parameter(channel, parameter, value) ==
    channel \o ".PID." \o parameter \o "=" \o FormatFloat(value.n)

get_sensor_type(channel) == [cmd |-> channel \o ".Sensor?", ret |-> "SensorType"]

set_sensor_type(channel, value) == channel \o ".Sensor=" \o SensorType[value.n]

\* The return statement of a getter applied to the answer of query:
\* [exc |-> the exception raised ("" when none), value |-> the value returned]
Return(ret, ans) ==
    CASE ret = "float" ->
            IF float(ans).ok THEN [exc |-> "", value |-> FloatVal(float(ans).n)]
            ELSE [exc |-> "ValueError", value |-> None]
      [] ret = "str" -> [exc |-> "", value |-> StrVal(ans)]
      [] ret = "None" -> [exc |-> "", value |-> None]
      [] ret = "lower_is_on" -> [exc |-> "", value |-> BoolVal(lower(ans) = "on")]
      [] ret = "SensorType" ->
            IF \E n \in DOMAIN SensorType : SensorType[n] = ans
            THEN [exc |-> "",
                  value |-> EnumVal(CHOOSE n \in DOMAIN SensorType : SensorType[n] = ans)]
            ELSE [exc |-> "KeyError", value |-> None]

(***************************************************************************)
(* class CryovacTIC500: the attribute declarations.  fget and fset name    *)
(* the base-class method bound by partial(..., channel=..., parameter=...);*)
(* fset is "None" where the declaration gives no fset.                     *)
(***************************************************************************)
Attr(channel, parameter, dtype, g, s) ==
    [channel |-> channel, parameter |-> parameter, dtype |-> dtype, fget |-> g, fset |-> s]

output1_value ==
    Attr(OUT1, "", "float", "get_channel_value", "set_channel_value")

output1_setpoint ==
    Attr(OUT1, "", "float", "get_PID_setpoint", "set_PID_setpoint")

output1_ramp_setpoint ==
    Attr(OUT1, "", "float", "get_PID_ramp_setpoint", "None")

output1_ramp_rate ==
    Attr(OUT1, "", "float", "get_PID_ramp_rate", "set_PID_ramp_rate")

output1_PID_on ==
    Attr(OUT1, "", "bool", "get_PID_on", "set_PID_on")

output1_P ==
    Attr(OUT1, "P", "float", "get_PID_parameter", "set_PID_parameter")

output1_I ==
    Attr(OUT1, "I", "float", "get_PID_parameter", "set_PID_parameter")

output1_D ==
    Attr(OUT1, "D", "float", "get_PID_parameter", "set_PID_parameter")

output1_control_channel ==
    Attr(OUT1, "", "str", "get_PID_input", "set_PID_input")

input1_type ==
    Attr(IN1, "", "SensorType", "get_sensor_type", "set_sensor_type")

input1_value ==
    Attr(IN1, "", "float", "get_channel_value", "None")

OutputAttributes ==
    {"output1_value", "output1_setpoint", "output1_ramp_setpoint", "output1_ramp_rate",
     "output1_PID_on", "output1_P", "output1_I", "output1_D", "output1_control_channel"}

InputAttributes == {"input1_type", "input1_value"}

Attributes == OutputAttributes \cup InputAttributes

Decl(name) ==
    CASE name = "output1_value" -> output1_value
      [] name = "output1_setpoint" -> output1_setpoint
      [] name = "output1_ramp_setpoint" -> output1_ramp_setpoint
      [] name = "output1_ramp_rate" -> output1_ramp_rate
      [] name = "output1_PID_on" -> output1_PID_on
      [] name = "output1_P" -> output1_P
      [] name = "output1_I" -> output1_I
      [] name = "output1_D" -> output1_D
      [] name = "output1_control_channel" -> output1_control_channel
      [] name = "input1_type" -> input1_type
      [] name = "input1_value" -> input1_value

\* the read method of an attribute: its fget with the bound arguments
fget(name) ==
    LET a == Decl(name)
    IN  CASE a.fget = "get_channel_value" -> get_channel_value(a.channel)
          [] a.fget = "get_PID_input" -> get_PID_input(a.channel)
          [] a.fget = "get_PID_setpoint" -> get_PID_setpoint(a.channel)
          [] a.fget = "get_PID_ramp_setpoint" -> get_PID_ramp_setpoint(a.channel)
          [] a.fget = "get_PID_ramp_rate" -> get_PID_ramp_rate(a.channel)
          [] a.fget = "get_PID_on" -> get_PID_on(a.channel)
          [] a.fget = "get_PID_parameter" -> get_PID_parameter(a.channel, a.parameter)
          [] a.fget = "get_sensor_type" -> get_sensor_type(a.channel)

\* output1_ramp_setpoint declared with the fset of output1_ramp_rate
fsetName_ramp_setpoint_writable(name) ==
    IF name = "output1_ramp_setpoint" THEN "set_PID_ramp_rate" ELSE Decl(name).fset

\* the write method of an attribute, "None" for an attribute declared without fset
fsetName(name) == Decl(name).fset

\* the command the write method of an attribute hands to send_command
fset(name, value) ==
    LET a == Decl(name)
        m == fsetName(name)
    IN  CASE m = "set_channel_value" -> set_channel_value(a.channel, value)
          [] m = "set_PID_input" -> set_PID_input(a.channel, value)
          [] m = "set_PID_setpoint" -> set_PID_setpoint(a.channel, value)
          [] m = "set_PID_ramp_rate" -> set_PID_ramp_rate(a.channel, value)
          [] m = "set_PID_on" -> set_PID_on(a.channel, value)
          [] m = "set_PID_parameter" -> set_PID_parameter(a.channel, a.parameter, value)
          [] m = "set_sensor_type" -> set_sensor_type(a.channel, value)

(***************************************************************************)
(* Inputs                                                                  *)
(***************************************************************************)
\* reply lines the instrument can produce for a command
InstrumentReplies == {"23.40000\r\n", "On\r\n", "Diode\r\n", "Error bad channel\r\n"}

\* values a client writes, by attribute type
Inputs(dtype) ==
    CASE dtype = "float" -> {FloatVal(0), FloatVal(2340000)}
      [] dtype = "bool" -> {BoolVal(TRUE), BoolVal(FALSE)}
      [] dtype = "str" -> {StrVal("In1")}
      [] dtype = "SensorType" -> {EnumVal(0), EnumVal(2)}

\* command texts a client passes to the query and send_command commands
RawCommands == {"Out2.value?", "In2.Sensor=Diode"}

\* what the instrument does with a request while the caller waits for the answer:
\* it answers in time, it handles the request without answering, or it is late
Arrivals ==
    [kind : {"reply"}, text : InstrumentReplies]
        \cup {[kind |-> "silent", text |-> ""], [kind |-> "late", text |-> ""]}

(***************************************************************************)
(* The socket                                                              *)
(***************************************************************************)
RECURSIVE Join(_)
Join(lines) == IF lines = <<>> THEN "" ELSE Head(lines).text \o Join(Tail(lines))

Reqs(lines) == {lines[i].req : i \in 1..Len(lines)}

NoCall ==
    [op |-> "none", attr |-> "", cmd |-> "", io |-> <<>>, exc |-> "", msg |-> "",
     value |-> None, req |-> 0, consumed |-> {}, timedOut |-> FALSE,
     ownReply |-> "", bytes |-> 0, ans |-> ""]

\* self.conn.send(f"{cmd}\n".encode()) on the socket as it is: the call fails
\* (AttributeError without a conn attribute, OSError on a socket that is not
\* connected or is closed) or the line goes out as request nextReq
Send(cmd) ==
    CASE conn = "absent" ->
            [exc |-> "AttributeError", msg |-> "object has no attribute 'conn'",
             io |-> <<>>, bytes |-> 0, req |-> 0]
      [] conn = "unconnected" ->
            [exc |-> "OSError", msg |-> "[Errno 32] Broken pipe",
             io |-> <<"send">>, bytes |-> 0, req |-> 0]
      [] conn = "closed" ->
            [exc |-> "OSError", msg |-> "[Errno 9] Bad file descriptor",
             io |-> <<"send">>, bytes |-> 0, req |-> 0]
      [] conn = "connected" ->
            [exc |-> "", msg |-> "", io |-> <<"send">>,
             bytes |-> Len(cmd \o "\n"), req |-> nextReq]

\* The run of CryovacTIC500.query(cmd): arrival is what the instrument does with
\* the request during the read timeout, k the number of buffered reply lines
\* that recv hands over (recv(1024): the reply lines are far shorter than the
\* buffer, so a read is never cut inside a line).
Query(cmd, arrival, k) ==
    LET snd   == Send(cmd)
        avail == IF arrival.kind = "reply"
                 THEN Append(rxbuf, [text |-> arrival.text, req |-> snd.req])
                 ELSE rxbuf
        outst == IF arrival.kind = "late" THEN Append(outstanding, snd.req) ELSE outstanding
        tmo   == avail = <<>>
        got   == SubSeq(avail, 1, k)
        ans   == IF tmo THEN "Timeout. Did you expect a reply?" ELSE strip(Join(got))
        err   == startswith(ans, "Error")
    IN  IF snd.exc # ""
        THEN [exc |-> snd.exc, msg |-> snd.msg, ans |-> "", io |-> snd.io,
              bytes |-> snd.bytes, req |-> 0, consumed |-> {}, timedOut |-> FALSE,
              ownReply |-> "", rxbuf |-> rxbuf, outstanding |-> outstanding,
              nextReq |-> nextReq]
        ELSE [exc |-> IF err THEN "RuntimeError" ELSE "",
              msg |-> IF err THEN ans ELSE "",
              ans |-> IF err THEN "" ELSE ans,
              io |-> snd.io \o <<"recv">>,
              bytes |-> snd.bytes, req |-> snd.req,
              consumed |-> IF tmo THEN {} ELSE Reqs(got),
              timedOut |-> tmo,
              ownReply |-> arrival.text,
              rxbuf |-> IF tmo THEN avail ELSE SubSeq(avail, k + 1, Len(avail)),
              outstanding |-> outst,
              nextReq |-> nextReq + 1]

\* The run of CryovacTIC500.send_command(cmd): one send, no recv
SendCommand(cmd) ==
    LET snd == Send(cmd)
    IN  [exc |-> snd.exc, msg |-> snd.msg, ans |-> "", io |-> snd.io,
         bytes |-> snd.bytes, req |-> snd.req, consumed |-> {}, timedOut |-> FALSE,
         ownReply |-> "", rxbuf |-> rxbuf,
         outstanding |-> IF snd.exc = "" THEN Append(outstanding, snd.req) ELSE outstanding,
         nextReq |-> IF snd.exc = "" THEN nextReq + 1 ELSE nextReq]

\* the choices open to the environment during a query
Choices(arrival, k) ==
    /\ arrival.kind # "late" => outstanding = <<>>
    /\ LET n == Len(rxbuf) + (IF arrival.kind = "reply" /\ conn = "connected" THEN 1 ELSE 0)
       IN  k \in 1..(IF n = 0 THEN 1 ELSE n)

CanSend == conn = "connected" => nextReq <= MaxCalls

\* a finished call: its observation and what it left on the socket
Finish(op, attr, cmd, run, exc, value) ==
    /\ last' = [op |-> op, attr |-> attr, cmd |-> cmd, io |-> run.io, exc |-> exc,
                msg |-> IF exc = run.exc THEN run.msg ELSE "",
                value |-> value, req |-> run.req, consumed |-> run.consumed,
                timedOut |-> run.timedOut, ownReply |-> run.ownReply,
                bytes |-> run.bytes, ans |-> run.ans]
    /\ rxbuf' = run.rxbuf
    /\ outstanding' = run.outstanding
    /\ nextReq' = run.nextReq
    /\ UNCHANGED <<state, status, conn>>

(***************************************************************************)
(* Operations                                                              *)
(***************************************************************************)
\* init_device on a device whose conn attribute is c
InitDevice(outcome, c, st) ==
    CASE outcome = "ok" ->
            [conn |-> "connected", state |-> "ON", status |-> st]
      [] outcome = "refused" ->
            [conn |-> "unconnected", state |-> "FAULT",
             status |-> "[Errno 111] Connection refused"]
      [] outcome = "no_socket" ->
            [conn |-> c, state |-> "FAULT",
             status |-> "[Errno 24] Too many open files"]

InitOutcomes == {"ok", "refused", "no_socket"}

Init ==
    \E outcome \in InitOutcomes :
        LET r == InitDevice(outcome, "absent", "")
        IN  /\ state = r.state
            /\ status = r.status
            /\ conn = r.conn
            /\ outstanding = <<>>
            /\ rxbuf = <<>>
            /\ nextReq = 1
            /\ last = [NoCall EXCEPT !.op = "init"]

\* re-initialization (after delete_device, or of a device that never connected):
\* the Init command of the device server runs delete_device before init_device
init_device ==
    /\ conn # "connected"
    /\ \E outcome \in InitOutcomes :
        LET r == InitDevice(outcome, conn, status)
        IN  /\ state' = r.state
            /\ status' = r.status
            /\ conn' = r.conn
    /\ outstanding' = <<>>
    /\ rxbuf' = <<>>
    /\ nextReq' = 1
    /\ last' = [NoCall EXCEPT !.op = "init"]

delete_device ==
    /\ IF conn = "absent"
       THEN /\ last' = [NoCall EXCEPT !.op = "delete", !.exc = "AttributeError"]
            /\ UNCHANGED <<conn, outstanding, rxbuf, nextReq>>
       ELSE /\ last' = [NoCall EXCEPT !.op = "delete"]
            /\ conn' = "closed"
            /\ outstanding' = <<>>
            /\ rxbuf' = <<>>
            /\ nextReq' = 1
    /\ UNCHANGED <<state, status>>

\* a client reads an attribute: its fget runs
read_attribute ==
    /\ CanSend
    /\ \E name \in Attributes, arrival \in Arrivals, k \in 1..(MaxCalls + 1) :
        /\ Choices(arrival, k)
        /\ LET g   == fget(name)
               run == Query(g.cmd, arrival, k)
               r   == IF run.exc = "" THEN Return(g.ret, run.ans)
                      ELSE [exc |-> run.exc, value |-> None]
           IN  Finish("get", name, g.cmd, run, r.exc, r.value)

\* a client writes an attribute: its fset runs, or the write is refused
\* because the attribute is declared without one
write_attribute ==
    /\ CanSend
    /\ \E name \in Attributes :
        \E value \in Inputs(Decl(name).dtype) :
            IF fsetName(name) = "None"
            THEN /\ last' = [NoCall EXCEPT !.op = "set", !.attr = name,
                                           !.exc = "AccessError"]
                 /\ UNCHANGED <<state, status, conn, outstanding, rxbuf, nextReq>>
            ELSE LET run == SendCommand(fset(name, value))
                 IN  Finish("set", name, fset(name, value), run, run.exc, None)

\* the query command
query ==
    /\ CanSend
    /\ \E cmd \in RawCommands, arrival \in Arrivals, k \in 1..(MaxCalls + 1) :
        /\ Choices(arrival, k)
        /\ LET run == Query(cmd, arrival, k)
           IN  Finish("query", "", cmd, run, run.exc, StrVal(run.ans))

\* the send_command command
send_command ==
    /\ CanSend
    /\ \E cmd \in RawCommands :
        LET run == SendCommand(cmd)
        IN  Finish("send", "", cmd, run, run.exc, None)

\* the get_description command
get_description ==
    /\ CanSend
    /\ \E arrival \in Arrivals, k \in 1..(MaxCalls + 1) :
        /\ Choices(arrival, k)
        /\ LET run == Query("description", arrival, k)
           IN  Finish("describe", "", "description", run, run.exc, StrVal(run.ans))

\* The instrument handles the oldest request it has not handled yet and
\* answers it with a reply line or with nothing.
Instrument ==
    /\ outstanding # <<>>
    /\ \E text \in InstrumentReplies \cup {""} :
        /\ rxbuf' = IF text = "" THEN rxbuf
                    ELSE Append(rxbuf, [text |-> text, req |-> Head(outstanding)])
        /\ last' = IF last.req = Head(outstanding) /\ text # ""
                   THEN [last EXCEPT !.ownReply = text] ELSE last
    /\ outstanding' = Tail(outstanding)
    /\ UNCHANGED <<state, status, conn, nextReq>>

Next ==
    \/ init_device
    \/ delete_device
    \/ read_attribute
    \/ write_attribute
    \/ query
    \/ send_command
    \/ get_description
    \/ Instrument

Spec == Init /\ [][Next]_vars

(***************************************************************************)
(* Properties                                                              *)
(***************************************************************************)
CallOps == {"get", "set", "query", "send", "describe"}

Channels == {"Out1", "Out2", "In1", "In2", "In3", "In4"}

ReadOnlyAttributes == {"output1_ramp_setpoint", "input1_value"}

\* the part of a write request before its first "=", and the part after it
EqAt(cmd) ==
    LET eqs == {i \in 1..Len(cmd) : Char(cmd, i) = "="}
    IN  IF eqs = {} THEN Len(cmd) + 1 ELSE CHOOSE i \in eqs : \A j \in eqs : i <= j

BeforeEq(cmd) == SubSeq(cmd, 1, EqAt(cmd) - 1)

AfterEq(cmd) == SubSeq(cmd, EqAt(cmd) + 1, Len(cmd))

\* the texts a written value of an attribute may take on the wire
ValueTexts(name) ==
    LET vs == Inputs(Decl(name).dtype)
    IN  CASE Decl(name).dtype = "float" ->
                {Format5f(v.n) : v \in vs} \cup {FormatFloat(v.n) : v \in vs}
          [] Decl(name).dtype = "bool" -> {"on", "off", "On", "Off"}
          [] Decl(name).dtype = "str" -> {v.s : v \in vs}
          [] Decl(name).dtype = "SensorType" -> {SensorType[v.n] : v \in vs}

\* C1: whenever the instrument's reply to the request of a get or set call begins
\* with "Error", that call fails with an instrument error (RuntimeError) carrying
\* exactly that reply text (replies that arrive after a read timed out are left
\* aside).
C1_ErrorReplyFailsIssuingCall ==
    (last.op \in {"get", "set"} /\ ~last.timedOut /\ startswith(last.ownReply, "Error"))
        => (last.exc = "RuntimeError" /\ last.msg = strip(last.ownReply))

\* C2: a set on a read-only attribute (output1_ramp_setpoint, input1_value) is
\* rejected with an access error and writes nothing to the socket: no send call,
\* zero bytes, no request.
C2_ReadOnlyWriteSendsNothing ==
    (last.op = "set" /\ last.attr \in ReadOnlyAttributes)
        => /\ last.exc = "AccessError"
           /\ last.io = <<>>
           /\ last.bytes = 0
           /\ last.req = 0

\* a write to a read-only attribute was rejected on a connected device after
\* requests had gone out on its socket
C2_Witness ==
    /\ last.op = "set"
    /\ last.attr \in ReadOnlyAttributes
    /\ last.exc = "AccessError"
    /\ conn = "connected"
    /\ nextReq > 1

\* C3: every get call and every set call on the connected socket performs
\* exactly one write followed by exactly one read.
C3_OneWriteThenOneRead ==
    (last.op \in {"get", "set"} /\ last.exc # "AccessError" /\ conn = "connected")
        => last.io = <<"send", "recv">>

\* C4: when the instrument returns no data, send_command succeeds without a
\* read, and a get fails with a timeout error.
C4_NoDataSendSucceedsGetTimesOut ==
    /\ (last.op = "send" /\ conn = "connected")
           => (last.exc = "" /\ last.io = <<"send">>)
    /\ (last.op = "get" /\ last.timedOut) => last.exc = "TimeoutError"

\* C5: after a failed bring-up the device is in FAULT with the failure
\* description as status, and until the next init_device no call performs a
\* read or a write on the socket.
C5_FaultMeansNoIO ==
    state = "FAULT"
        => /\ status \in {InitDevice(o, conn, status).status : o \in {"refused", "no_socket"}}
           /\ last.op \in CallOps => last.io = <<>>

\* C6: after delete_device the socket is closed, and every call fails with a
\* "not connected" condition without a send or receive on the closed socket.
C6_ClosedMeansNotConnected ==
    (conn = "closed" /\ last.op \in CallOps)
        => (last.exc = "NotConnected" /\ last.io = <<>>)

\* C7: no two distinct output attributes map to the same wire command: the
\* command a getter sent is sent by no other output attribute's getter, and the
\* command a setter sent (up to the value) by no other output attribute's setter.
C7_DistinctWireCommands ==
    /\ (last.op = "get" /\ last.attr \in OutputAttributes /\ last.bytes > 0)
           => \A b \in OutputAttributes \ {last.attr} : fget(b).cmd # last.cmd
    /\ (last.op = "set" /\ last.attr \in OutputAttributes /\ last.bytes > 0)
           => \A b \in OutputAttributes \ ({last.attr} \cup ReadOnlyAttributes) :
                  \A v \in Inputs(Decl(b).dtype) :
                      BeforeEq(fset(b, v)) # BeforeEq(last.cmd)

\* C8: the read request of an attribute is "<channel>.<wireCommand>?" and its
\* write request "<channel>.<wireCommand>=<value>", with the same channel (one
\* of Out1, Out2, In1..In4) and the same wire command in both.
C8_WireFormat ==
    /\ (last.op = "get" /\ last.bytes > 0)
           => /\ Decl(last.attr).channel \in Channels
              /\ startswith(last.cmd, Decl(last.attr).channel \o ".")
              /\ endswith(last.cmd, "?")
    /\ (last.op = "set" /\ last.bytes > 0)
           => /\ startswith(last.cmd, Decl(last.attr).channel \o ".")
              /\ BeforeEq(last.cmd) \o "?" = fget(last.attr).cmd
              /\ AfterEq(last.cmd) \in ValueTexts(last.attr)

\* C9: with one call at a time, at most one request is outstanding on the
\* socket, and the reply a call consumes is the reply to the command that same
\* call sent.
C9_RepliesPairWithRequests ==
    /\ Len(outstanding) <= 1
    /\ last.op \in CallOps => last.consumed \subseteq {last.req}

\* C10: a get of a float attribute that received an answer returns the number
\* parsed from it, or fails with a format error (ValueError) when the answer is
\* not numeric; it never completes without a value.
C10_FloatGetReturnsParsedNumber ==
    (/\ last.op = "get"
     /\ Decl(last.attr).dtype = "float"
     /\ last.io = <<"send", "recv">>
     /\ ~last.timedOut
     /\ last.exc # "RuntimeError")
        => IF float(last.ans).ok
           THEN last.exc = "" /\ last.value = FloatVal(float(last.ans).n)
           ELSE last.exc = "ValueError"

====
